---- MODULE Spec2Model ----
(***************************************************************************)
(* Camera navigation of the 3D tree experience: src/tree/camera.js (the    *)
(* current version, lines 1-254), its orchestration in src/tree/index.js,  *)
(* the free-camera toggle, flight and mouse look of src/editor.js, the     *)
(* scene and its lighting (src/tree/sceneSetup.js, src/main.js), the text  *)
(* labels (loadText, src/tree/content.js), the tree itself (generateTree,  *)
(* src/unnamed/part_004) and the drag of the development overlay           *)
(* (src/editor.js).                                                        *)
(*                                                                         *)
(* Units.  Scroll progress is counted in thousandths (Scale = 1000 is 1.0, *)
(* so one wheel pixel, 0.001, is one unit).  JavaScript numbers have       *)
(* finite precision: the smoothing step rounds its increment to the        *)
(* nearest unit (ties to even), as IEEE arithmetic rounds it to the        *)
(* nearest representable number.  Lengths are in thousandths of a world    *)
(* unit, introAngle in thousandths of a radian, the Guided angle in        *)
(* thousandths of pi, times in milliseconds.                               *)
(*                                                                         *)
(* A camera position is the record [r, rad, pim, y, t, df, ds, dy] that    *)
(* stands for  C + (t/1000)(T - C) + df*F + ds*R + dy*Y  where             *)
(* C = (cos(a)*r, y, sin(a)*r), a = rad/1000 + pim*pi/1000, T is the       *)
(* transition target (35,5,0) and F, R, Y are the free camera's forward,   *)
(* right and up directions.  The camera always looks at a point of the     *)
(* trunk axis, (0, camLookY, 0).                                           *)
(***************************************************************************)
EXTENDS Integers, FiniteSets, Sequences, TLC

VARIABLES
    isTreeModeActive,       \* index.js
    isInitialized,          \* index.js
    listeners,              \* how many times init() has registered its listeners
    bodyOverflow,           \* document.body.style.overflow
    pendingFrames,          \* requestAnimationFrame callbacks not yet run
    isIntroMode,            \* camera.js
    introAngle,             \* camera.js
    isTransitioning,        \* camera.js
    transitionStartTime,    \* camera.js
    transitionStartPos,     \* camera.js
    currentSectionIndex,    \* camera.js
    targetScrollProgress,   \* camera.js
    currentScrollProgress,  \* camera.js
    touchStartY,            \* camera.js
    touchStartTime,         \* camera.js
    touch,                  \* the finger on the screen, and where it came down
    isFreeCameraMode,       \* editor.js
    keys,                   \* editor.js: the held keys the flight code reads
    camPos,                 \* camera.position
    camLookY,               \* height of the point camera.lookAt was given
    camYaw,                 \* camera.rotation.y, counted from the direction
                            \* the last camera.lookAt gave
    camPitch,               \* camera.rotation.x (order YXZ)
    pointerLocked,          \* document.pointerLockElement is the canvas
    isDarkMode,             \* index.js
    bodyDarkMode,           \* document.body has the class dark-mode
    scene,                  \* sceneSetup.js: scenes made, lighting, moon
    textMeshes,             \* index.js: labels of the editable meshes
    fontLoads,              \* font loads whose callback has not run
    missing,                \* ids document.getElementById does not find
    tree,                   \* treeGeometry.js: the tree group being built
    mesh,                   \* treeGeometry.js: the mesh made last
    isEditMode,             \* editor.js
    selectedMesh,           \* editor.js: the label of the selected mesh
    isDragging,             \* editor.js
    meshPos,                \* where on its plane each editable mesh is
    mouseButton,            \* whether the mouse button is down, and the mesh
                            \* its press has grabbed
    now,                    \* Date.now()
    frames,                 \* requestAnimationFrame callbacks run so far
    lastOp                  \* the handler that ran last, its argument, and
                            \* (moveSection) the section index it found

\* index.js, sceneSetup.js and the page around them
sceneVars == <<isDarkMode, bodyDarkMode, scene, textMeshes, fontLoads, missing>>

\* treeGeometry.js
treeVars == <<tree, mesh>>

\* editor.js, the development overlay
editVars == <<isEditMode, selectedMesh, isDragging, meshPos, mouseButton>>

vars == <<editVars, treeVars, sceneVars, pointerLocked, camYaw, camPitch,
          isTreeModeActive, isInitialized, listeners, bodyOverflow,
          touch, pendingFrames, isIntroMode,
          introAngle, isTransitioning, transitionStartTime,
          transitionStartPos, currentSectionIndex, targetScrollProgress,
          currentScrollProgress, touchStartY, touchStartTime,
          isFreeCameraMode, keys, camPos, camLookY, now, frames, lastOp>>

----------------------------------------------------------------------------
(* Program constants *)

Scale == 1000
TOTAL_SECTIONS == 6
TRANSITION_DURATION_MS == 2000
IntroRadius == 160
IntroHeight == 200
IntroLookAtY == 140
TransitionStartLookAtY == 40
TransitionEndLookAtY == 5
MaxTextHeight == 104
CanopyHeight == 200
BaseRadius == 35
RadiusExpand == 80
LookDown == 60
CameraLift == 5
FlickMs == 300
FlickPx == 50
\* sensitivity = 0.002, in thousandths of a radian per pixel
Sensitivity == 2
\* Math.PI / 2 in thousandths of a radian
HalfPi == 1571

\* treeGeometry.js, generateTree and addMassiveCanopy
TrunkSegments == 40
SegmentHeight == 4
TrunkBaseRadius == 12
\* 0.6 and 0.025, in thousandths
Taper == 600
SegmentStep == 25
BranchFloor == 8
BranchStride == 3
ClusterCount == 5
LeafCount == 800
HangingCount == 50
CanopyRadius == 45
CanopyLift == 5
\* 0.4, in thousandths
Flatten == 400
HangDrop == 20

TextSectionEnd == (4 * Scale) \div 5
CanopyStart == (8 * Scale) \div 10

\* The number NaN.  Arithmetic on it gives NaN and every comparison with it
\* is false; the operators below that can meet it say so themselves.
NaN == -1000000000

(* Bounds of the model *)

MaxNow == 2000
MaxFrames == 2
MaxPending == 1
MaxCamDrift == 25
MaxQueued == 2
MaxScenes == 2
MaxYaw == 400

TickMs == {TRANSITION_DURATION_MS \div 2}
ScrollTickMs == {TRANSITION_DURATION_MS}
WheelDeltas == {-1500, 500}
ModeWheelDeltas == {500}
SectionDirections == {-7, -1, 1, 7}
ModeDirections == {1}
TouchYs == {0, 100}
TapYs == {0}
SmoothTargets == {0, Scale \div 5, Scale \div 2, (4 * Scale) \div 5, Scale}
StartKeys == {" "}
NavKeys == {"f", " "}
FlyKeys == {"w", "a", "s", "d", "e", "q"}
FlightKeys == {" ", "f", "w", "s"}
EditKeys == {"e", "m"}
\* points of the plane of a mesh the pointer can be over
DragPoints == {1, 2}
SectionButtons == {"tree-up", "tree-down"}
DomFaults == {{}, {"tree-up"}, {"intro-message"}, {"position-display"}}
MouseMoves == {<<100, 500>>, <<-100, -300>>}
BadWheelDeltas == {NaN, 500}
\* Math.random(), in thousandths
Uniform == {0, 8, 125, 729, 999}

----------------------------------------------------------------------------
(* Arithmetic *)

Abs(n) == IF n < 0 THEN -n ELSE n

Min(a, b) == IF a < b THEN a ELSE b

Max(a, b) == IF a > b THEN a ELSE b

\* n/d rounded to the nearest integer, ties to the even one (d > 0)
RoundHalfEven(n, d) ==
    LET q == n \div d
        r == n % d
    IN  IF 2 * r > d \/ (2 * r = d /\ q % 2 = 1) THEN q + 1 ELSE q

\* a + b
Plus(a, b) == IF a = NaN \/ b = NaN THEN NaN ELSE a + b

\* a * b
Times(a, b) == IF a = NaN \/ b = NaN THEN NaN ELSE a * b

\* Math.round(n/d): the nearest integer, ties upwards (d > 0)
MathRound(n, d) == IF n = NaN THEN NaN ELSE (2 * n + d) \div (2 * d)

\* Math.max(0, Math.min(1, p)) on progress units; Math.min and Math.max
\* return NaN when an argument is NaN
Clamp01(p) == IF p = NaN THEN NaN ELSE Max(0, Min(Scale, p))

\* Math.atan(x / 1000) for 0 <= x <= 1000, in thousandths of a radian, to
\* within four of them
AtanUnit(x) == (x * (785 + (273 * (1000 - x)) \div 1000)) \div 1000

\* Math.atan2(n, d) for d >= 0, in thousandths of a radian
Atan(n, d) ==
    IF n < 0 THEN -(IF -n <= d THEN AtanUnit((1000 * (-n)) \div d)
                    ELSE HalfPi - AtanUnit((1000 * d) \div (-n)))
    ELSE IF n = 0 THEN 0
    ELSE IF n <= d THEN AtanUnit((1000 * n) \div d)
    ELSE HalfPi - AtanUnit((1000 * d) \div n)

----------------------------------------------------------------------------
(* Camera positions *)

Position(r, rad, pim, y) ==
    [r |-> r, rad |-> rad, pim |-> pim, y |-> y,
     t |-> 0, df |-> 0, ds |-> 0, dy |-> 0]

Origin == Position(0, 0, 0, 0)

\* new THREE.Vector3(35, 5, 0)
TargetPos == Position(35 * 1000, 0, 0, 5 * 1000)

\* v.lerpVectors(p, TargetPos, t/1000)
LerpToTarget(p, t) ==
    IF t = 0 THEN p
    ELSE IF t = 1000 THEN TargetPos
    ELSE [p EXCEPT !.t = p.t + (t * (1000 - p.t)) \div 1000,
                   !.df = (p.df * (1000 - t)) \div 1000,
                   !.ds = (p.ds * (1000 - t)) \div 1000,
                   !.dy = (p.dy * (1000 - t)) \div 1000]

\* The pitch camera.lookAt(0, lookY, 0) gives a camera at p.  The camera
\* looks at the trunk axis from the side: p is a point of the orbit or of
\* the corkscrew, or lies between the intro orbit's first thousandths of a
\* radian and the target, where its distance from the axis is the
\* interpolated radius.
LookPitch(p, lookY) ==
    IF lookY = NaN \/ p.y = NaN THEN NaN
    ELSE Atan(lookY - (p.y + (p.t * (TargetPos.y - p.y)) \div 1000),
              p.r + (p.t * (TargetPos.r - p.r)) \div 1000)

\* the easing 1 - (1 - progress)^2
EaseOutQuadratic(elapsed) ==
    LET progress == Min((1000 * elapsed) \div TRANSITION_DURATION_MS, 1000)
        rest == 1000 - progress
    IN  1000 - (rest * rest) \div 1000

\* 1 - Math.pow(1 - progress, 3), progress = Math.min(elapsed / 2000, 1);
\* elapsed in ms, the result in thousandths
EaseOutCubic(elapsed) ==
    LET progress == Min((1000 * elapsed) \div TRANSITION_DURATION_MS, 1000)
        rest == 1000 - progress
    IN  1000 - (rest * rest * rest) \div (1000 * 1000)

----------------------------------------------------------------------------
(* State of camera.js and of the camera it drives, as one record *)

Nav ==
    [isIntroMode |-> isIntroMode, introAngle |-> introAngle,
     isTransitioning |-> isTransitioning,
     transitionStartTime |-> transitionStartTime,
     transitionStartPos |-> transitionStartPos,
     currentSectionIndex |-> currentSectionIndex,
     targetScrollProgress |-> targetScrollProgress,
     currentScrollProgress |-> currentScrollProgress,
     touchStartY |-> touchStartY, touchStartTime |-> touchStartTime,
     camPos |-> camPos, camLookY |-> camLookY,
     camYaw |-> camYaw, camPitch |-> camPitch]

Commit(s) ==
    /\ isIntroMode' = s.isIntroMode
    /\ introAngle' = s.introAngle
    /\ isTransitioning' = s.isTransitioning
    /\ transitionStartTime' = s.transitionStartTime
    /\ transitionStartPos' = s.transitionStartPos
    /\ currentSectionIndex' = s.currentSectionIndex
    /\ targetScrollProgress' = s.targetScrollProgress
    /\ currentScrollProgress' = s.currentScrollProgress
    /\ touchStartY' = s.touchStartY
    /\ touchStartTime' = s.touchStartTime
    /\ camPos' = s.camPos
    /\ camLookY' = s.camLookY
    /\ camYaw' = s.camYaw
    /\ camPitch' = s.camPitch

\* the branch updateCamera takes (camera.js 80, 90, 110, 112)
ModeOf(intro, transitioning, free) ==
    IF intro THEN "Intro"
    ELSE IF transitioning THEN "Transitioning"
    ELSE IF free THEN "Free"
    ELSE "Guided"

Mode == ModeOf(isIntroMode, isTransitioning, isFreeCameraMode)

----------------------------------------------------------------------------
(* camera.js *)

\* resetCameraState that leaves a running transition running
resetKeepsTransition(s) ==
    [s EXCEPT !.isIntroMode = TRUE,
              !.introAngle = 0,
              !.currentSectionIndex = 0,
              !.targetScrollProgress = 0,
              !.currentScrollProgress = 0]

\* resetCameraState that forgets the section index
resetKeepsSection(s) ==
    [s EXCEPT !.isIntroMode = TRUE,
              !.isTransitioning = FALSE,
              !.introAngle = 0,
              !.targetScrollProgress = 0,
              !.currentScrollProgress = 0]

resetCameraState(s) ==
    [s EXCEPT !.isIntroMode = TRUE,
              !.isTransitioning = FALSE,
              !.introAngle = 0,
              !.currentSectionIndex = 0,
              !.targetScrollProgress = 0,
              !.currentScrollProgress = 0]

\* startGuidedMode without its guard: it restarts a running transition
startGuidedModeRestarts(s, time) ==
    [s EXCEPT !.isIntroMode = FALSE,
              !.isTransitioning = TRUE,
              !.transitionStartTime = time,
              !.transitionStartPos = s.camPos,
              !.targetScrollProgress = 0,
              !.currentScrollProgress = 0]

\* startGuidedMode that does not take the time of the start
startGuidedModeNoStamp(s, time) ==
    IF s.isTransitioning THEN s
    ELSE [s EXCEPT !.isIntroMode = FALSE,
                   !.isTransitioning = TRUE,
                   !.transitionStartPos = s.camPos,
                   !.targetScrollProgress = 0,
                   !.currentScrollProgress = 0]

startGuidedMode(s, time) ==
    IF s.isTransitioning THEN s
    ELSE [s EXCEPT !.isIntroMode = FALSE,
                   !.isTransitioning = TRUE,
                   !.transitionStartTime = time,
                   !.transitionStartPos = s.camPos,
                   !.targetScrollProgress = 0,
                   !.currentScrollProgress = 0]

\* the smoothing step with the factor 0.5
SmoothStepHalf(target, current) ==
    current + RoundHalfEven((target - current) * 50, 100)

\* currentScrollProgress += (targetScrollProgress - currentScrollProgress) * 0.05
SmoothStep(target, current) ==
    IF target = NaN \/ current = NaN THEN NaN
    ELSE current + RoundHalfEven((target - current) * 5, 100)

\* the two-phase mapping whose second phase is measured from progress 0
GuidedHeightFromStart(p) ==
    IF p = NaN THEN NaN
    ELSE IF p <= TextSectionEnd
    THEN (p * MaxTextHeight * 1000) \div TextSectionEnd
    ELSE MaxTextHeight * 1000
           + (p * (CanopyHeight - MaxTextHeight) * 1000) \div Scale

\* the radius that grows over the whole path
GuidedRadiusFromStart(p) ==
    IF p = NaN THEN BaseRadius * 1000
    ELSE BaseRadius * 1000 + (p * RadiusExpand * 1000) \div Scale

\* currentHeight of the two-phase mapping (camera.js 117-130)
GuidedHeight(p) ==
    IF p = NaN THEN NaN
    ELSE IF p <= TextSectionEnd
    THEN (p * MaxTextHeight * 1000) \div TextSectionEnd
    ELSE MaxTextHeight * 1000
           + ((p - TextSectionEnd) * (CanopyHeight - MaxTextHeight) * 1000)
               \div (Scale - TextSectionEnd)

\* radius of the corkscrew (camera.js 132-140)
GuidedRadius(p) ==
    IF p # NaN /\ p > CanopyStart
    THEN BaseRadius * 1000
           + ((p - CanopyStart) * RadiusExpand * 1000) \div (Scale - CanopyStart)
    ELSE BaseRadius * 1000

\* angle = progress * Math.PI * 2 * rotations, rotations = 2.5, in thousandths of pi
GuidedAngle(p) == IF p = NaN THEN NaN ELSE (p * 2 * 25 * 1000) \div (10 * Scale)

\* the height given to camera.lookAt (camera.js 149-156)
GuidedLookAtY(p) ==
    IF p # NaN /\ p > CanopyStart
    THEN GuidedHeight(p) + CameraLift * 1000
           - ((p - CanopyStart) * LookDown * 1000) \div (Scale - CanopyStart)
    ELSE Plus(GuidedHeight(p), CameraLift * 1000)

\* editor.js 59-96; multiplyScalar scales forward / right in place
updateFreeCameraMovement(pos, free, held) ==
    IF ~free THEN pos
    ELSE LET fw == IF "w" \in held THEN 500 ELSE 0
             fs == IF "s" \in held
                   THEN (IF "w" \in held THEN 250 ELSE 500) ELSE 0
             ra == IF "a" \in held THEN 500 ELSE 0
             rd == IF "d" \in held
                   THEN (IF "a" \in held THEN 250 ELSE 500) ELSE 0
             ue == IF "e" \in held THEN 500 ELSE 0
             uq == IF "q" \in held THEN 500 ELSE 0
         IN  [pos EXCEPT !.df = @ + fw - fs,
                         !.ds = @ - ra + rd,
                         !.dy = @ + ue - uq]

updateCamera(s, active, free, held, time) ==
    IF ~active THEN s
    ELSE IF s.isIntroMode THEN
        LET pos == Position(IntroRadius * 1000, s.introAngle + 1, 0,
                            IntroHeight * 1000)
        IN  [s EXCEPT !.introAngle = @ + 1,
                      !.camPos = pos,
                      !.camLookY = IntroLookAtY * 1000,
                      !.camYaw = 0,
                      !.camPitch = LookPitch(pos, IntroLookAtY * 1000)]
    ELSE IF s.isTransitioning THEN
        LET elapsed == time - s.transitionStartTime
            t == EaseOutCubic(elapsed)
            pos == LerpToTarget(s.transitionStartPos, t)
            lookY == TransitionStartLookAtY * 1000
                       + (t * (TransitionEndLookAtY - TransitionStartLookAtY))
        IN  [s EXCEPT !.camPos = pos,
                      !.camLookY = lookY,
                      !.camYaw = 0,
                      !.camPitch = LookPitch(pos, lookY),
                      !.isTransitioning = ~(elapsed >= TRANSITION_DURATION_MS)]
    ELSE IF free THEN
        [s EXCEPT !.camPos = updateFreeCameraMovement(s.camPos, free, held)]
    ELSE
        LET p == SmoothStep(s.targetScrollProgress, s.currentScrollProgress)
            pos == Position(GuidedRadius(p), 0, GuidedAngle(p),
                            Plus(GuidedHeight(p), CameraLift * 1000))
        IN  [s EXCEPT !.currentScrollProgress = p,
                      !.camPos = pos,
                      !.camLookY = GuidedLookAtY(p),
                      !.camYaw = 0,
                      !.camPitch = LookPitch(pos, GuidedLookAtY(p))]

\* onWheel without the clamp of the target
onWheelUnclamped(s, deltaY, active, free) ==
    IF ~active THEN s
    ELSE IF s.isIntroMode THEN s
    ELSE IF free THEN
        [s EXCEPT !.camPos.dy = @ + deltaY * 50]
    ELSE
        LET target == s.targetScrollProgress + deltaY
        IN  [s EXCEPT !.targetScrollProgress = target,
                      !.currentSectionIndex =
                          MathRound(target * (TOTAL_SECTIONS - 1), Scale)]

\* onWheel whose free-camera branch also scrolls the camera's progress
onWheelFreeScrolls(s, deltaY, active, free) ==
    IF ~active THEN s
    ELSE IF s.isIntroMode THEN s
    ELSE IF free THEN
        [s EXCEPT !.camPos.dy = @ + deltaY * 50,
                  !.currentScrollProgress = Clamp01(@ + deltaY)]
    ELSE
        LET target == Clamp01(s.targetScrollProgress + deltaY)
        IN  [s EXCEPT !.targetScrollProgress = target,
                      !.currentSectionIndex =
                          MathRound(target * (TOTAL_SECTIONS - 1), Scale)]

\* onWheel without the free-camera branch
onWheelIgnoresFree(s, deltaY, active, free) ==
    IF ~active THEN s
    ELSE IF s.isIntroMode THEN s
    ELSE
        LET target == Clamp01(s.targetScrollProgress + deltaY)
        IN  [s EXCEPT !.targetScrollProgress = target,
                      !.currentSectionIndex =
                          MathRound(target * (TOTAL_SECTIONS - 1), Scale)]

onWheel(s, deltaY, active, free) ==
    IF ~active THEN s
    ELSE IF s.isIntroMode THEN s
    ELSE IF free THEN
        [s EXCEPT !.camPos.dy = Plus(@, Times(deltaY, 50))]
    ELSE
        LET target == Clamp01(Plus(s.targetScrollProgress, deltaY))
        IN  [s EXCEPT !.targetScrollProgress = target,
                      !.currentSectionIndex =
                          MathRound(Times(target, TOTAL_SECTIONS - 1), Scale)]

\* moveSection whose upper clamp tests > instead of >=
moveSectionOffByOne(s, direction) ==
    LET moved == s.currentSectionIndex + direction
        index == IF moved < 0 THEN 0
                 ELSE IF moved > TOTAL_SECTIONS THEN TOTAL_SECTIONS - 1
                 ELSE moved
    IN  [s EXCEPT !.currentSectionIndex = index,
                  !.targetScrollProgress =
                      (index * Scale) \div (TOTAL_SECTIONS - 1)]

\* moveSection that wraps around at the ends instead of clamping
moveSectionWrap(s, direction) ==
    LET index == (s.currentSectionIndex + direction) % TOTAL_SECTIONS
    IN  [s EXCEPT !.currentSectionIndex = index,
                  !.targetScrollProgress =
                      (index * Scale) \div (TOTAL_SECTIONS - 1)]

\* moveSection that also snaps the camera's progress to the target
moveSectionSnap(s, direction) ==
    LET moved == s.currentSectionIndex + direction
        index == IF moved < 0 THEN 0
                 ELSE IF moved >= TOTAL_SECTIONS THEN TOTAL_SECTIONS - 1
                 ELSE moved
    IN  [s EXCEPT !.currentSectionIndex = index,
                  !.targetScrollProgress =
                      (index * Scale) \div (TOTAL_SECTIONS - 1),
                  !.currentScrollProgress =
                      (index * Scale) \div (TOTAL_SECTIONS - 1)]

moveSection(s, direction) ==
    LET moved == Plus(s.currentSectionIndex, direction)
        index == IF moved # NaN /\ moved < 0 THEN 0
                 ELSE IF moved # NaN /\ moved >= TOTAL_SECTIONS
                 THEN TOTAL_SECTIONS - 1
                 ELSE moved
    IN  [s EXCEPT !.currentSectionIndex = index,
                  !.targetScrollProgress =
                      IF index = NaN THEN NaN
                      ELSE (index * Scale) \div (TOTAL_SECTIONS - 1)]

onTouchStart(s, clientY, active, time) ==
    IF ~active THEN s
    ELSE IF s.isIntroMode THEN s
    ELSE [s EXCEPT !.touchStartY = clientY, !.touchStartTime = time]

onTouchMove(s, clientY, active) ==
    IF ~active THEN s
    ELSE IF s.isIntroMode THEN s
    ELSE
        LET deltaY == s.touchStartY - clientY
            target == Clamp01(s.targetScrollProgress + deltaY * 2)
        IN  [s EXCEPT !.targetScrollProgress = target,
                      !.currentSectionIndex =
                          MathRound(target * (TOTAL_SECTIONS - 1), Scale),
                      !.touchStartY = clientY]

onTouchEnd(s, clientY, active, time) ==
    IF ~active THEN s
    ELSE IF s.isIntroMode THEN s
    ELSE
        LET touchDuration == time - s.touchStartTime
            swipeDistance == s.touchStartY - clientY
        IN  IF touchDuration < FlickMs /\ Abs(swipeDistance) > FlickPx
            THEN (IF swipeDistance > 0 THEN moveSection(s, 1)
                  ELSE moveSection(s, -1))
            ELSE s

\* mousemove whose look is not gated on the pointer lock
onMouseMoveUnlocked(s, movementX, movementY, active, free, locked) ==
    IF ~free \/ ~active THEN s
    ELSE [s EXCEPT !.camYaw = @ - movementX * Sensitivity,
                   !.camPitch = Max(-HalfPi, Min(HalfPi,
                                    @ - movementY * Sensitivity))]

\* mousemove: editor.js 116-134
onMouseMove(s, movementX, movementY, active, free, locked) ==
    IF ~free \/ ~active THEN s
    ELSE IF ~locked THEN s
    ELSE [s EXCEPT !.camYaw = @ - movementX * Sensitivity,
                   !.camPitch = Max(-HalfPi, Min(HalfPi,
                                    @ - movementY * Sensitivity))]

----------------------------------------------------------------------------
(* sceneSetup.js, content.js and loadText *)

\* the scene before initScene: no scene, no lights, no moon
NoScene ==
    [count |-> 0,
     lighting |-> [background |-> "none", fog |-> "none", fogDensity |-> 0,
                   ambient |-> "none", ambientIntensity |-> 0,
                   directional |-> "none", directionalIntensity |-> 0,
                   lightAt |-> "none"],
     moonMesh |-> "none"]

\* intensities in tenths, fog density in thousandths
NightPreset ==
    [background |-> "0x1a2b3c", fog |-> "0x1a2b3c", fogDensity |-> 5,
     ambient |-> "0x404040", ambientIntensity |-> 5,
     directional |-> "0xaaccff", directionalIntensity |-> 15,
     lightAt |-> "moon"]

DayPreset ==
    [background |-> "0x87CEEB", fog |-> "0xb0d4f1", fogDensity |-> 2,
     ambient |-> "0xffffff", ambientIntensity |-> 8,
     directional |-> "0xfff4e6", directionalIntensity |-> 20,
     lightAt |-> "sun"]

\* a new scene with its two lights; the moon of an earlier scene stays
\* where sceneSetup.js keeps it
initScene(sc) ==
    [sc EXCEPT !.count = @ + 1,
               !.lighting = [background |-> "none", fog |-> "none",
                             fogDensity |-> 0,
                             ambient |-> "0x404040", ambientIntensity |-> 5,
                             directional |-> "0xaaccff",
                             directionalIntensity |-> 15,
                             lightAt |-> "sun"]]

\* a new Mesh is visible
createMoon(sc) == [sc EXCEPT !.moonMesh = "visible"]

\* updateSceneLighting that hides the moon by day
updateSceneLightingNoMoonByDay(sc, dark) ==
    IF sc.count = 0 THEN sc
    ELSE [sc EXCEPT !.lighting = IF dark THEN NightPreset ELSE DayPreset,
                    !.moonMesh = IF @ = "none" THEN @
                                 ELSE IF dark THEN "visible" ELSE "hidden"]

\* updateSceneLighting that leaves the fog of the night in the day
updateSceneLightingKeepsFog(sc, dark) ==
    IF sc.count = 0 THEN sc
    ELSE [sc EXCEPT !.lighting = IF dark THEN NightPreset
                                 ELSE [DayPreset EXCEPT !.fog = sc.lighting.fog],
                    !.moonMesh = IF @ = "none" THEN @ ELSE "visible"]

updateSceneLighting(sc, dark) ==
    IF sc.count = 0 THEN sc
    ELSE [sc EXCEPT !.lighting = IF dark THEN NightPreset ELSE DayPreset,
                    !.moonMesh = IF @ = "none" THEN @ ELSE "visible"]

\* content.js: the heading of each record, its height and whether it has
\* detail
texts ==
    << [str |-> "Where I Stand", y |-> 5, detail |-> TRUE],
       [str |-> "What I Make", y |-> 29, detail |-> TRUE],
       [str |-> "What I Carry", y |-> 55, detail |-> TRUE],
       [str |-> "What I Believe", y |-> 79, detail |-> TRUE],
       [str |-> "Find Me", y |-> 104, detail |-> TRUE] >>

\* userData.label of a mesh: the heading, and whether it is the heading's
\* detail mesh (the label then ends in " (detail)")
Label(str, detail) == [label |-> str, detail |-> detail]

\* the font callback that makes the headings only
FontLabelsHeadingsOnly(items) ==
    [i \in 1..Len(items) |-> Label(items[i].str, FALSE)]

\* the labels the font callback pushes, in order: texts.forEach of loadText
FontLabels(items) ==
    LET pushed[k \in 0..Len(items)] ==
            IF k = 0 THEN <<>>
            ELSE pushed[k - 1]
                   \o (IF items[k].detail
                       THEN <<Label(items[k].str, FALSE),
                              Label(items[k].str, TRUE)>>
                       ELSE <<Label(items[k].str, FALSE)>>)
    IN  pushed[Len(items)]

----------------------------------------------------------------------------
(* The tree: treeGeometry.js.  A child of the tree group is the record     *)
(* [kind, i, y, radiusBottom, radiusTop]: what it is, the trunk segment it *)
(* was made for, the height the loop had reached, and its radii.  The      *)
(* random details are kept for the mesh made last only: its height, the   *)
(* radius drawn for a canopy leaf and the jitter of a trunk segment.       *)

\* the cube roots of 0, 0.001, ..., 1 in thousandths, rounded down
CubeRoots ==
    [u \in 0..Scale |->
        CHOOSE c \in 0..Scale :
            /\ c * c * c <= u * Scale * Scale
            /\ u * Scale * Scale < (c + 1) * (c + 1) * (c + 1)]

\* Math.pow(u, 1 / 3)
CubeRoot(u) == CubeRoots[u]

\* i / trunkSegments
SegmentProgress(i) == (i * Scale) \div TrunkSegments

\* 12 * (1 - progress * 0.6)
radiusBottom(i) ==
    TrunkBaseRadius * (Scale - (SegmentProgress(i) * Taper) \div Scale)

\* a top radius that stops short of the next segment's bottom
radiusTopShort(i) ==
    TrunkBaseRadius
        * (Scale - ((SegmentProgress(i) + SegmentStep - 5) * Taper) \div Scale)

\* 12 * (1 - (progress + 0.025) * 0.6)
radiusTop(i) ==
    TrunkBaseRadius
        * (Scale - ((SegmentProgress(i) + SegmentStep) * Taper) \div Scale)

\* a branch on every third segment, from the ground up
BranchingEveryThird(i) == i % BranchStride = 0

\* i > 8 && i % 3 === 0
Branching(i) == i > BranchFloor /\ i % BranchStride = 0

\* (Math.random() - 0.5) * 1.5
Jitter(u) == MathRound((u - Scale \div 2) * 3, 2)

\* a lower hemisphere left as it is
FlattenBottomNot(py) == py

\* if (py < 0) py *= 0.4
FlattenBottom(py) == IF py < 0 THEN MathRound(py * Flatten, Scale) ELSE py

\* r = Math.pow(Math.random(), 1 / 3) * canopyRadius
CanopySampleRadius(u) == CubeRoot(u) * CanopyRadius

\* r * Math.cos(phi) with phi = Math.acos(2 * Math.random() - 1)
CanopySphereY(u, v) == MathRound(CanopySampleRadius(u) * (2 * v - Scale), Scale)

Part(kind, i, y, bottom, top) ==
    [kind |-> kind, i |-> i, y |-> y, radiusBottom |-> bottom,
     radiusTop |-> top]

NoTree ==
    [at |-> "none", i |-> 0, height |-> 0, children |-> <<>>, canopies |-> 0,
     canopyY |-> 0, leaves |-> 0, hanging |-> 0]

NoMesh == [kind |-> "none", y |-> 0, r |-> 0, jitterX |-> 0, jitterZ |-> 0]

\* addColossalBranch: the branch and the clusterCount leaves at its end
addColossalBranch(children, i, y) ==
    children \o <<Part("branch", i, y, 3000, 1000)>>
             \o [j \in 1..ClusterCount |-> Part("leaf", i, y, 0, 0)]

----------------------------------------------------------------------------
(* Handlers: index.js, and the listeners init() and initEditor() register *)

\* the handler that ran, its argument, and the mode and the section index
\* it found
Op(name, arg) ==
    [op |-> name, arg |-> arg, mode |-> Mode, index |-> currentSectionIndex]

UnchangedNav ==
    UNCHANGED <<isIntroMode, introAngle, isTransitioning, transitionStartTime,
                transitionStartPos, currentSectionIndex, targetScrollProgress,
                currentScrollProgress, touchStartY, touchStartTime, camPos,
                camLookY, camYaw, camPitch>>

\* how far from its path the model follows the free camera
InRange(s) ==
    /\ s.camPos.dy # NaN
    /\ Abs(s.camPos.dy) <= MaxCamDrift * 1000
    /\ Abs(s.camPos.df) <= MaxCamDrift * 1000
    /\ Abs(s.camPos.ds) <= MaxCamDrift * 1000

\* an event runs every registered copy of its listener in turn
Dispatch(handler(_), s, n) ==
    LET run[k \in 0..n] == IF k = 0 THEN s ELSE handler(run[k - 1])
    IN  run[n]

NoTouch == [down |-> FALSE, y |-> 0]

\* init() up to loadText: index.js 73-91
init ==
    /\ scene.count < MaxScenes
    /\ scene' = createMoon(updateSceneLighting(initScene(scene), bodyDarkMode))
    /\ isDarkMode' = bodyDarkMode
    /\ textMeshes' = Append(textMeshes, Label("Moon", FALSE))
    /\ fontLoads' = fontLoads + 1
    /\ UNCHANGED <<bodyDarkMode, missing>>

\* toggleTreeMode that calls init() on every activation
toggleTreeModeReinit ==
    /\ isTreeModeActive' = ~isTreeModeActive
    /\ IF ~isTreeModeActive
       THEN /\ pendingFrames < MaxPending
            /\ bodyOverflow' = "hidden"
            /\ isInitialized' = TRUE
            /\ listeners' = listeners + 1
            /\ IF isInitialized THEN UNCHANGED sceneVars ELSE init
            /\ pendingFrames' = pendingFrames + 1
            /\ Commit(updateCamera(resetCameraState(Nav), TRUE,
                                   isFreeCameraMode, keys, now))
       ELSE /\ bodyOverflow' = "auto"
            /\ UNCHANGED <<sceneVars, isInitialized, listeners, pendingFrames>>
            /\ UnchangedNav
    /\ UNCHANGED <<editVars, treeVars, pointerLocked, touch, isFreeCameraMode, keys, now,
                   frames>>
    /\ lastOp' = Op("toggleTreeMode", 0)

\* toggleTreeMode(), with at most maxPending frame callbacks pending.  On
\* the first activation init() makes the scene and registers the listeners;
\* getElementById gives null for a section button that is missing, and
\* init() throws there (index.js 102-103), after loadText and the wheel
\* and touch listeners and before the rest of toggleTreeMode.  Those
\* listeners then find the Intro mode of the page load and return.  When
\* activating, animate() runs its first frame at once.
toggleTreeModeWithin(maxPending) ==
    /\ isTreeModeActive' = ~isTreeModeActive
    /\ IF ~isTreeModeActive
       THEN /\ bodyOverflow' = "hidden"
            /\ IF isInitialized THEN UNCHANGED sceneVars ELSE init
            /\ IF ~isInitialized /\ SectionButtons \cap missing # {}
               THEN /\ UNCHANGED <<isInitialized, listeners, pendingFrames>>
                    /\ UnchangedNav
               ELSE /\ pendingFrames < maxPending
                    /\ isInitialized' = TRUE
                    /\ listeners' = IF isInitialized THEN listeners
                                    ELSE listeners + 1
                    /\ pendingFrames' = pendingFrames + 1
                    /\ Commit(updateCamera(resetCameraState(Nav), TRUE,
                                           isFreeCameraMode, keys, now))
       ELSE /\ bodyOverflow' = "auto"
            /\ UNCHANGED <<sceneVars, isInitialized, listeners, pendingFrames>>
            /\ UnchangedNav
    /\ UNCHANGED <<editVars, treeVars, pointerLocked, touch, isFreeCameraMode, keys, now,
                   frames>>
    /\ lastOp' = Op("toggleTreeMode", 0)

\* toggleTreeMode that leaves the first frame to requestAnimationFrame
toggleTreeModeLazy ==
    /\ isTreeModeActive' = ~isTreeModeActive
    /\ IF ~isTreeModeActive
       THEN /\ bodyOverflow' = "hidden"
            /\ IF isInitialized THEN UNCHANGED sceneVars ELSE init
            /\ pendingFrames < MaxPending
            /\ isInitialized' = TRUE
            /\ listeners' = IF isInitialized THEN listeners ELSE listeners + 1
            /\ pendingFrames' = pendingFrames + 1
            /\ Commit(resetCameraState(Nav))
       ELSE /\ bodyOverflow' = "auto"
            /\ UNCHANGED <<sceneVars, isInitialized, listeners, pendingFrames>>
            /\ UnchangedNav
    /\ UNCHANGED <<editVars, treeVars, pointerLocked, touch, isFreeCameraMode, keys, now,
                   frames>>
    /\ lastOp' = Op("toggleTreeMode", 0)

\* toggleTreeMode()
toggleTreeMode == toggleTreeModeWithin(MaxPending)

\* animate() that does not test isTreeModeActive
animateAlways ==
    /\ pendingFrames > 0
    /\ frames < MaxFrames
    /\ frames' = frames + 1
    /\ pendingFrames' = pendingFrames
    /\ LET s == updateCamera(Nav, TRUE, isFreeCameraMode, keys, now)
       IN  InRange(s) /\ Commit(s)
    /\ UNCHANGED <<editVars, treeVars, sceneVars, pointerLocked,
                   isTreeModeActive, isInitialized, listeners, bodyOverflow,
                   touch, isFreeCameraMode, keys, now>>
    /\ lastOp' = Op("animate", 0)

\* animate(), run as a requestAnimationFrame callback
animate ==
    /\ pendingFrames > 0
    /\ frames < MaxFrames
    /\ frames' = frames + 1
    /\ pendingFrames' = IF isTreeModeActive THEN pendingFrames
                        ELSE pendingFrames - 1
    /\ LET s == updateCamera(Nav, isTreeModeActive, isFreeCameraMode, keys, now)
       IN  InRange(s) /\ Commit(s)
    /\ UNCHANGED <<editVars, treeVars, sceneVars, pointerLocked,
                   isTreeModeActive, isInitialized, listeners, bodyOverflow,
                   touch, isFreeCameraMode, keys, now>>
    /\ lastOp' = Op("animate", 0)

\* no mesh: selectedMesh = null, or a ray that meets no mesh
NoSelection == Label("", FALSE)

\* the meshes whose position is followed
EditMeshes == {Label("Moon", FALSE), Label("Where I Stand", FALSE)}

\* the E and M keys of the editor's keydown listener: editor.js 139-191
editKeyDown(ed, key, active, meshes) ==
    IF ~active THEN ed
    ELSE IF key = "e"
    THEN [isEditMode |-> ~ed.isEditMode,
          selectedMesh |-> IF ed.isEditMode THEN NoSelection
                           ELSE ed.selectedMesh]
    ELSE IF key = "m"
    THEN [isEditMode |-> TRUE,
          selectedMesh |->
              IF \E k \in 1..Len(meshes) : meshes[k] = Label("Moon", FALSE)
              THEN Label("Moon", FALSE) ELSE ed.selectedMesh]
    ELSE ed

\* one registration's keydown listeners, in the order they were added:
\* index.js 106-112, then editor.js 139-191, then editor.js 99-103
keydownListeners(st, key, active, time) ==
    LET free == IF active /\ key = "f" THEN ~st.free ELSE st.free
    IN  [nav |-> IF active /\ st.nav.isIntroMode
                 THEN startGuidedMode(st.nav, time) ELSE st.nav,
         edit |-> editKeyDown(st.edit, key, active, textMeshes),
         free |-> free,
         locked |-> IF active /\ key = "f" /\ ~free THEN FALSE ELSE st.locked,
         held |-> IF free /\ active /\ key \in FlyKeys
                  THEN st.held \cup {key} ELSE st.held]

\* keydown whose intro listener does not test getIsIntroMode()
onKeyDownAnyMode(key) ==
    /\ isInitialized
    /\ LET st == Dispatch(LAMBDA x :
                              [keydownListeners(x, key, isTreeModeActive, now)
                                 EXCEPT !.nav = IF isTreeModeActive
                                                THEN startGuidedMode(x.nav, now)
                                                ELSE x.nav],
                          [nav |-> Nav, free |-> isFreeCameraMode,
                           edit |-> [isEditMode |-> isEditMode,
                                     selectedMesh |-> selectedMesh],
                           held |-> keys, locked |-> pointerLocked],
                          listeners)
       IN  /\ isFreeCameraMode' = st.free
           /\ keys' = st.held
           /\ pointerLocked' = st.locked
           /\ isEditMode' = st.edit.isEditMode
           /\ selectedMesh' = st.edit.selectedMesh
           /\ mouseButton' = IF st.edit.isEditMode THEN mouseButton
                             ELSE [mouseButton EXCEPT !.hit = NoSelection]
           /\ Commit(st.nav)
    /\ UNCHANGED <<isDragging, meshPos, treeVars, sceneVars,
                   isTreeModeActive, isInitialized, listeners, bodyOverflow,
                   touch, pendingFrames, now, frames>>
    /\ lastOp' = Op("keydown", IF key = "f" THEN 1 ELSE 0)

\* keydown
onKeyDown(key) ==
    /\ isInitialized
    /\ LET st == Dispatch(LAMBDA x : keydownListeners(x, key,
                                         isTreeModeActive, now),
                          [nav |-> Nav, free |-> isFreeCameraMode,
                           edit |-> [isEditMode |-> isEditMode,
                                     selectedMesh |-> selectedMesh],
                           held |-> keys, locked |-> pointerLocked],
                          listeners)
       IN  /\ isFreeCameraMode' = st.free
           /\ keys' = st.held
           /\ pointerLocked' = st.locked
           /\ isEditMode' = st.edit.isEditMode
           /\ selectedMesh' = st.edit.selectedMesh
           /\ mouseButton' = IF st.edit.isEditMode THEN mouseButton
                             ELSE [mouseButton EXCEPT !.hit = NoSelection]
           /\ Commit(st.nav)
    /\ UNCHANGED <<isDragging, meshPos, treeVars, sceneVars,
                   isTreeModeActive, isInitialized, listeners, bodyOverflow,
                   touch, pendingFrames, now, frames>>
    /\ lastOp' = Op("keydown", IF key = "f" THEN 1 ELSE 0)

\* keyup: editor.js 105-107
onKeyUp(key) ==
    /\ isInitialized
    /\ keys' = keys \ {key}
    /\ UnchangedNav
    /\ UNCHANGED <<editVars, treeVars, sceneVars, pointerLocked,
                   isTreeModeActive, isInitialized, listeners, bodyOverflow,
                   touch, pendingFrames, isFreeCameraMode, now, frames>>
    /\ lastOp' = Op("keyup", IF key = "f" THEN 1 ELSE 0)

\* wheel: index.js 94
wheel(deltaY) ==
    /\ isInitialized
    /\ LET s == Dispatch(LAMBDA x : onWheel(x, deltaY, isTreeModeActive,
                                            isFreeCameraMode),
                         Nav, listeners)
       IN  InRange(s) /\ Commit(s)
    /\ UNCHANGED <<editVars, treeVars, sceneVars, pointerLocked,
                   isTreeModeActive, isInitialized, listeners, bodyOverflow,
                   touch, pendingFrames, isFreeCameraMode, keys, now, frames>>
    /\ lastOp' = Op("wheel", deltaY)

\* click on tree-up / tree-down: index.js 102-103
clickSection(direction) ==
    /\ isInitialized
    /\ Commit(Dispatch(LAMBDA x : moveSection(x, direction), Nav, listeners))
    /\ UNCHANGED <<editVars, treeVars, sceneVars, pointerLocked,
                   isTreeModeActive, isInitialized, listeners, bodyOverflow,
                   touch, pendingFrames, isFreeCameraMode, keys, now, frames>>
    /\ lastOp' = Op("moveSection", direction)

\* one registration's touchstart listeners: index.js 97, then index.js 115-121
touchstartListeners(s, clientY, active, time) ==
    LET started == onTouchStart(s, clientY, active, time)
    IN  IF active /\ started.isIntroMode
        THEN startGuidedMode(started, time) ELSE started

\* touchstart: a finger comes down
touchStart(clientY) ==
    /\ isInitialized
    /\ ~touch.down
    /\ touch' = [down |-> TRUE, y |-> clientY]
    /\ Commit(Dispatch(LAMBDA x : touchstartListeners(x, clientY,
                                      isTreeModeActive, now),
                       Nav, listeners))
    /\ UNCHANGED <<editVars, treeVars, sceneVars, pointerLocked,
                   isTreeModeActive, isInitialized, listeners, bodyOverflow,
                   pendingFrames, isFreeCameraMode, keys, now, frames>>
    /\ lastOp' = Op("touchstart", clientY)

\* touchmove: index.js 98; the finger that is down moves
touchMove(clientY) ==
    /\ isInitialized
    /\ touch.down
    /\ Commit(Dispatch(LAMBDA x : onTouchMove(x, clientY, isTreeModeActive),
                       Nav, listeners))
    /\ UNCHANGED <<editVars, treeVars, sceneVars, pointerLocked,
                   isTreeModeActive, isInitialized, listeners, bodyOverflow,
                   touch, pendingFrames, isFreeCameraMode, keys, now, frames>>
    /\ lastOp' = Op("touchmove", clientY)

\* touchend: index.js 99; the finger is lifted
touchEnd(clientY) ==
    /\ isInitialized
    /\ touch.down
    /\ touch' = NoTouch
    /\ Commit(Dispatch(LAMBDA x : onTouchEnd(x, clientY, isTreeModeActive, now),
                       Nav, listeners))
    /\ UNCHANGED <<editVars, treeVars, sceneVars, pointerLocked,
                   isTreeModeActive, isInitialized, listeners, bodyOverflow,
                   pendingFrames, isFreeCameraMode, keys, now, frames>>
    /\ lastOp' = Op("touchend", clientY)

\* time passes
Tick(ms) ==
    /\ now + ms <= MaxNow
    /\ now' = now + ms
    /\ UnchangedNav
    /\ UNCHANGED <<editVars, treeVars, sceneVars, pointerLocked,
                   isTreeModeActive, isInitialized, listeners, bodyOverflow,
                   touch, pendingFrames, isFreeCameraMode, keys, frames>>
    /\ lastOp' = Op("tick", ms)

\* click on the canvas: editor.js 110-114, requestPointerLock()
clickCanvas ==
    /\ isInitialized
    /\ pointerLocked' = (pointerLocked \/ (isFreeCameraMode /\ isTreeModeActive))
    /\ UnchangedNav
    /\ UNCHANGED <<editVars, treeVars, sceneVars,
                   isTreeModeActive, isInitialized, listeners, bodyOverflow,
                   touch, pendingFrames, isFreeCameraMode, keys, now, frames>>
    /\ lastOp' = Op("click", 0)

\* Escape while the pointer is locked: the browser releases the lock
pointerLockExit ==
    /\ pointerLocked
    /\ pointerLocked' = FALSE
    /\ UnchangedNav
    /\ UNCHANGED <<editVars, treeVars, sceneVars,
                   isTreeModeActive, isInitialized, listeners, bodyOverflow,
                   touch, pendingFrames, isFreeCameraMode, keys, now, frames>>
    /\ lastOp' = Op("escape", 0)

\* mousemove with movementX, movementY = move[1], move[2]
mouseMove(move) ==
    /\ isInitialized
    /\ LET s == Dispatch(LAMBDA x : onMouseMove(x, move[1], move[2],
                                        isTreeModeActive, isFreeCameraMode,
                                        pointerLocked),
                         Nav, listeners)
       IN  Abs(s.camYaw) <= MaxYaw /\ Commit(s)
    /\ UNCHANGED <<editVars, treeVars, sceneVars, pointerLocked,
                   isTreeModeActive, isInitialized, listeners, bodyOverflow,
                   touch, pendingFrames, isFreeCameraMode, keys, now, frames>>
    /\ lastOp' = Op("mousemove", move[2])

\* index.js 62-67
setDarkMode(darkModeEnabled) ==
    /\ isDarkMode' = darkModeEnabled
    /\ scene' = updateSceneLighting(scene, darkModeEnabled)

\* click on the dark mode toggle: main.js 35-55
darkModeClick ==
    /\ bodyDarkMode' = ~bodyDarkMode
    /\ setDarkMode(~bodyDarkMode)
    /\ UnchangedNav
    /\ UNCHANGED <<editVars, treeVars, textMeshes, fontLoads, missing, pointerLocked,
                   isTreeModeActive, isInitialized, listeners, bodyOverflow,
                   touch, pendingFrames, isFreeCameraMode, keys, now, frames>>
    /\ lastOp' = Op("darkMode", 0)

\* the font has loaded: the callback loadText gave FontLoader.load
fontLoaded ==
    /\ fontLoads > 0
    /\ fontLoads' = fontLoads - 1
    /\ textMeshes' = textMeshes \o FontLabels(texts)
    /\ UnchangedNav
    /\ UNCHANGED <<editVars, treeVars, isDarkMode, bodyDarkMode, scene, missing, pointerLocked,
                   isTreeModeActive, isInitialized, listeners, bodyOverflow,
                   touch, pendingFrames, isFreeCameraMode, keys, now, frames>>
    /\ lastOp' = Op("fontLoaded", 0)

\* mousedown on the canvas, with the mesh of textMeshes the ray meets first:
\* editor.js 345-363.  The canvas is shown while the experience is active.
mouseDown(hit) ==
    /\ isInitialized
    /\ isTreeModeActive
    /\ ~mouseButton.down
    /\ \/ hit = NoSelection
       \/ \E k \in 1..Len(textMeshes) : textMeshes[k] = hit
    /\ IF isEditMode /\ hit # NoSelection
       THEN selectedMesh' = hit /\ isDragging' = TRUE
       ELSE UNCHANGED <<selectedMesh, isDragging>>
    /\ mouseButton' = [down |-> TRUE,
                       hit |-> IF isEditMode THEN hit ELSE NoSelection]
    /\ UnchangedNav
    /\ UNCHANGED <<isEditMode, meshPos, treeVars, sceneVars, pointerLocked,
                   isTreeModeActive, isInitialized, listeners, bodyOverflow,
                   touch, pendingFrames, isFreeCameraMode, keys, now, frames>>
    /\ lastOp' = Op("mousedown", 0)

\* mousemove on the canvas, the ray meeting the mesh's plane at point:
\* editor.js 365-387
dragMove(point) ==
    /\ isInitialized
    /\ isTreeModeActive
    /\ meshPos' = IF isEditMode /\ isDragging /\ selectedMesh # NoSelection
                     /\ selectedMesh \in DOMAIN meshPos
                  THEN [meshPos EXCEPT ![selectedMesh] = point]
                  ELSE meshPos
    /\ UnchangedNav
    /\ UNCHANGED <<isEditMode, selectedMesh, isDragging, mouseButton,
                   treeVars, sceneVars, pointerLocked,
                   isTreeModeActive, isInitialized, listeners, bodyOverflow,
                   touch, pendingFrames, isFreeCameraMode, keys, now, frames>>
    /\ lastOp' = Op("mousemove", point)

\* the mouse button is released, on the canvas (editor.js 389-394) or
\* elsewhere on the page, where no listener hears it (editor.js 340-342)
mouseUp(onCanvas) ==
    /\ isInitialized
    /\ mouseButton.down
    /\ onCanvas => isTreeModeActive
    /\ isDragging' = IF onCanvas THEN FALSE ELSE isDragging
    /\ mouseButton' = [down |-> FALSE, hit |-> NoSelection]
    /\ UnchangedNav
    /\ UNCHANGED <<isEditMode, selectedMesh, meshPos,
                   treeVars, sceneVars, pointerLocked,
                   isTreeModeActive, isInitialized, listeners, bodyOverflow,
                   touch, pendingFrames, isFreeCameraMode, keys, now, frames>>
    /\ lastOp' = Op("mouseup", IF onCanvas THEN 1 ELSE 0)

\* generateTree runs inside init(): no handler runs in between
UnchangedPage ==
    /\ UnchangedNav
    /\ UNCHANGED <<editVars, sceneVars, pointerLocked, isTreeModeActive,
                   isInitialized, listeners, bodyOverflow, touch,
                   pendingFrames, isFreeCameraMode, keys, now, frames, lastOp>>

\* generateTree up to its loop: the group, the materials, height = 0
generateTree ==
    /\ tree.at = "none"
    /\ tree' = [tree EXCEPT !.at = "trunk"]
    /\ UNCHANGED mesh
    /\ UnchangedPage

\* one turn of the trunk loop, with the branch the segment gets
trunkSegment(u, v) ==
    /\ tree.at = "trunk"
    /\ tree.i < TrunkSegments
    /\ LET i == tree.i
           grown == Append(tree.children,
                           Part("segment", i, tree.height,
                                radiusBottom(i), radiusTop(i)))
       IN  /\ tree' = [tree EXCEPT
                          !.children =
                              IF Branching(i)
                              THEN addColossalBranch(grown, i, tree.height)
                              ELSE grown,
                          !.height = @ + SegmentHeight * 1000,
                          !.i = i + 1]
           /\ mesh' = [kind |-> "segment",
                       y |-> tree.height + (SegmentHeight * 1000) \div 2,
                       r |-> 0, jitterX |-> Jitter(u), jitterZ |-> Jitter(v)]
    /\ UnchangedPage

\* the loop has ended: addMassiveCanopy is called and makes its group
addMassiveCanopy ==
    /\ tree.at = "trunk"
    /\ tree.i = TrunkSegments
    /\ tree' = [tree EXCEPT !.at = "canopy", !.canopies = @ + 1,
                            !.canopyY = tree.height]
    /\ mesh' = NoMesh
    /\ UnchangedPage

\* one leaf of the dome: a turn of the first loop of addMassiveCanopy
canopyLeaf(u, v) ==
    /\ tree.at = "canopy"
    /\ tree.leaves < LeafCount
    /\ tree' = [tree EXCEPT !.leaves = @ + 1]
    /\ mesh' = [kind |-> "canopy",
                y |-> tree.canopyY + FlattenBottom(CanopySphereY(u, v))
                        + CanopyLift * 1000,
                r |-> CanopySampleRadius(u), jitterX |-> 0, jitterZ |-> 0]
    /\ UnchangedPage

\* one hanging leaf: a turn of the second loop of addMassiveCanopy
hangingLeaf(u, v) ==
    /\ tree.at = "canopy"
    /\ tree.leaves = LeafCount
    /\ tree.hanging < HangingCount
    /\ tree' = [tree EXCEPT !.hanging = @ + 1]
    /\ mesh' = [kind |-> "hanging", y |-> tree.canopyY - v * HangDrop,
                r |-> (u \div 2 + 200) * CanopyRadius,
                jitterX |-> 0, jitterZ |-> 0]
    /\ UnchangedPage

\* addMassiveCanopy and generateTree return
treeBuilt ==
    /\ tree.at = "canopy"
    /\ tree.leaves = LeafCount
    /\ tree.hanging = HangingCount
    /\ tree' = [tree EXCEPT !.at = "done"]
    /\ mesh' = NoMesh
    /\ UnchangedPage

\* the page as it is loaded; Date.now() is counted from then, so that
\* touchStartTime = 0, the epoch, lies FlickMs or more in the past
PageLoaded(darks, faults) ==
    /\ isTreeModeActive = FALSE
    /\ isInitialized = FALSE
    /\ listeners = 0
    /\ bodyOverflow = ""
    /\ touch = NoTouch
    /\ pendingFrames = 0
    /\ isIntroMode = TRUE
    /\ introAngle = 0
    /\ isTransitioning = FALSE
    /\ transitionStartTime = 0
    /\ transitionStartPos = Origin
    /\ currentSectionIndex = 0
    /\ targetScrollProgress = 0
    /\ currentScrollProgress = 0
    /\ touchStartY = 0
    /\ touchStartTime = -FlickMs
    /\ isFreeCameraMode = FALSE
    /\ keys = {}
    /\ camPos = Origin
    /\ camLookY = 0
    /\ camYaw = 0
    /\ camPitch = 0
    /\ pointerLocked = FALSE
    /\ bodyDarkMode \in darks
    /\ isDarkMode = bodyDarkMode
    /\ scene = NoScene
    /\ textMeshes = <<>>
    /\ fontLoads = 0
    /\ missing \in faults
    /\ tree = NoTree
    /\ mesh = NoMesh
    /\ isEditMode = FALSE
    /\ selectedMesh = NoSelection
    /\ isDragging = FALSE
    /\ meshPos = [m \in EditMeshes |-> 0]
    /\ mouseButton = [down |-> FALSE, hit |-> NoSelection]
    /\ now = 0
    /\ frames = 0
    /\ lastOp = [op |-> "init", arg |-> 0, mode |-> "Intro", index |-> 0]

\* the page in light mode, with every element the code looks up
Init == PageLoaded({FALSE}, {{}})

\* Scrolling: wheel, section buttons and touch, from activation onwards
Next ==
    \/ toggleTreeMode
    \/ animate
    \/ \E key \in StartKeys : onKeyDown(key)
    \/ \E deltaY \in WheelDeltas : wheel(deltaY)
    \/ \E direction \in SectionDirections : clickSection(direction)
    \/ \E clientY \in TouchYs : touchStart(clientY)
    \/ \E clientY \in TouchYs : touchMove(clientY)
    \/ \E clientY \in TouchYs : touchEnd(clientY)
    \/ \E ms \in ScrollTickMs : Tick(ms)

Spec == Init /\ [][Next]_vars

\* The mode machine: activation, keys (F toggles the free camera), taps,
\* frames and time, with one wheel step and one section button
NextMode ==
    \/ toggleTreeMode
    \/ animate
    \/ \E key \in NavKeys : onKeyDown(key)
    \/ \E key \in NavKeys : onKeyUp(key)
    \/ \E clientY \in TapYs : touchStart(clientY)
    \/ \E deltaY \in ModeWheelDeltas : wheel(deltaY)
    \/ \E direction \in ModeDirections : clickSection(direction)
    \/ \E ms \in TickMs : Tick(ms)

SpecMode == Init /\ [][NextMode]_vars

\* Touch and the free camera: activation, keys, a finger that comes down,
\* drags and lifts, frames and time
NextTouch ==
    \/ toggleTreeMode
    \/ animate
    \/ \E key \in NavKeys : onKeyDown(key)
    \/ \E clientY \in TouchYs : touchStart(clientY)
    \/ \E clientY \in TouchYs : touchMove(clientY)
    \/ \E clientY \in TouchYs : touchEnd(clientY)
    \/ \E ms \in ScrollTickMs : Tick(ms)

SpecTouch == Init /\ [][NextTouch]_vars

\* The scene: activation, the dark mode toggle, the font callback, frames
\* and time, on a page in either theme
NextScene ==
    \/ toggleTreeModeWithin(MaxQueued)
    \/ animate
    \/ \E key \in StartKeys : onKeyDown(key)
    \/ darkModeClick
    \/ fontLoaded
    \/ \E ms \in ScrollTickMs : Tick(ms)

SpecScene == PageLoaded(BOOLEAN, {{}}) /\ [][NextScene]_vars

\* The same on a page where an element the code looks up may be missing
SpecDom == PageLoaded(BOOLEAN, DomFaults) /\ [][NextScene]_vars

\* Mouse look: activation, keys, clicks on the canvas, Escape, pointer
\* moves, frames and time
NextLook ==
    \/ toggleTreeMode
    \/ animate
    \/ \E key \in NavKeys : onKeyDown(key)
    \/ clickCanvas
    \/ pointerLockExit
    \/ \E move \in MouseMoves : mouseMove(move)
    \/ \E ms \in ScrollTickMs : Tick(ms)

SpecLook == Init /\ [][NextLook]_vars

\* Wheel events whose deltaY may be NaN, the section button, frames and time
NextNaN ==
    \/ toggleTreeMode
    \/ animate
    \/ \E key \in StartKeys : onKeyDown(key)
    \/ \E deltaY \in BadWheelDeltas : wheel(deltaY)
    \/ \E direction \in ModeDirections : clickSection(direction)
    \/ \E ms \in ScrollTickMs : Tick(ms)

SpecNaN == Init /\ [][NextNaN]_vars

\* Flight: activation, the keys that start the tour, toggle the free camera
\* and fly it forwards and backwards, frames and time
NextFly ==
    \/ toggleTreeMode
    \/ animate
    \/ \E key \in FlightKeys : onKeyDown(key)
    \/ \E key \in FlightKeys : onKeyUp(key)
    \/ \E ms \in ScrollTickMs : Tick(ms)

SpecFly == Init /\ [][NextFly]_vars

\* The development overlay: activation, the E and M keys, the font, and
\* the mouse on and off the canvas
NextEdit ==
    \/ toggleTreeMode
    \/ \E key \in EditKeys : onKeyDown(key)
    \/ fontLoaded
    \/ \E hit \in EditMeshes \cup {NoSelection} : mouseDown(hit)
    \/ \E point \in DragPoints : dragMove(point)
    \/ \E onCanvas \in BOOLEAN : mouseUp(onCanvas)

SpecEdit == Init /\ [][NextEdit]_vars

\* The tree: generateTree from its call to its return, every random draw
NextTree ==
    \/ generateTree
    \/ \E u, v \in Uniform : trunkSegment(u, v)
    \/ addMassiveCanopy
    \/ \E u, v \in Uniform : canopyLeaf(u, v)
    \/ \E u, v \in Uniform : hangingLeaf(u, v)
    \/ treeBuilt

SpecTree == Init /\ [][NextTree]_vars

\* The smoothing step alone: Guided mode at rest on any progress value, with
\* the target on a section or half way up, and frames only
GuidedPose(p) ==
    Position(GuidedRadius(p), 0, GuidedAngle(p), GuidedHeight(p) + CameraLift * 1000)

InitSmooth ==
    /\ isTreeModeActive = TRUE
    /\ isInitialized = TRUE
    /\ listeners = 1
    /\ bodyOverflow = "hidden"
    /\ touch = NoTouch
    /\ pendingFrames = 1
    /\ isIntroMode = FALSE
    /\ introAngle = 1
    /\ isTransitioning = FALSE
    /\ transitionStartTime = 0
    /\ transitionStartPos = Position(IntroRadius * 1000, 1, 0, IntroHeight * 1000)
    /\ targetScrollProgress \in SmoothTargets
    /\ currentSectionIndex =
           MathRound(targetScrollProgress * (TOTAL_SECTIONS - 1), Scale)
    /\ currentScrollProgress \in 0..Scale
    /\ touchStartY = 0
    /\ touchStartTime = 0
    /\ isFreeCameraMode = FALSE
    /\ keys = {}
    /\ camPos = GuidedPose(currentScrollProgress)
    /\ camLookY = GuidedLookAtY(currentScrollProgress)
    /\ camYaw = 0
    /\ camPitch = LookPitch(camPos, camLookY)
    /\ pointerLocked = FALSE
    /\ isDarkMode = FALSE
    /\ bodyDarkMode = FALSE
    /\ scene = createMoon(updateSceneLighting(initScene(NoScene), FALSE))
    /\ textMeshes = <<Label("Moon", FALSE)>>
    /\ fontLoads = 1
    /\ missing = {}
    /\ tree = NoTree
    /\ mesh = NoMesh
    /\ isEditMode = FALSE
    /\ selectedMesh = NoSelection
    /\ isDragging = FALSE
    /\ meshPos = [m \in EditMeshes |-> 0]
    /\ mouseButton = [down |-> FALSE, hit |-> NoSelection]
    /\ now = TRANSITION_DURATION_MS
    /\ frames = 0
    /\ lastOp = [op |-> "wheel", arg |-> 0, mode |-> "Guided",
                 index |-> currentSectionIndex]

NextSmooth == animate

SpecSmooth == InitSmooth /\ [][NextSmooth]_vars

----------------------------------------------------------------------------
(* Properties *)

Modes == {"Intro", "Transitioning", "Guided", "Free"}

\* the flags that make a mode the active one
Active(m) ==
    CASE m = "Intro" -> isIntroMode
      [] m = "Transitioning" -> isTransitioning
      [] m = "Free" -> ~isIntroMode /\ ~isTransitioning /\ isFreeCameraMode
      [] m = "Guided" -> ~isIntroMode /\ ~isTransitioning /\ ~isFreeCameraMode

\* C1: after any sequence of wheel events, touch drags, flicks, moveSection
\* calls, frames, startGuidedMode and resets, targetScrollProgress and
\* currentScrollProgress both lie in [0,1].
C1_ProgressInUnitInterval ==
    /\ targetScrollProgress \in 0..Scale
    /\ currentScrollProgress \in 0..Scale

\* a wheel step far below zero arrived in Guided mode after the camera had
\* started to climb, and the target was clamped to 0
C1_Witness ==
    /\ lastOp.op = "wheel" /\ lastOp.arg < -Scale /\ lastOp.mode = "Guided"
    /\ isTreeModeActive
    /\ targetScrollProgress = 0
    /\ currentScrollProgress > 0

\* C2: exactly one of the modes Intro, Transitioning, Guided, Free is active;
\* isIntroMode and isTransitioning are never both true.
C2_ExactlyOneMode ==
    /\ Cardinality({m \in Modes : Active(m)}) = 1
    /\ ~(isIntroMode /\ isTransitioning)

\* the experience was re-activated (reset) while a transition was running
C2_Witness ==
    /\ lastOp.op = "toggleTreeMode" /\ lastOp.mode = "Transitioning"
    /\ isTreeModeActive
    /\ isIntroMode

\* C3: mode changes are one-directional.  Intro is entered only by the reset
\* of an activation, Transitioning only from Intro, Guided only from
\* Transitioning or Free, and Free only from Transitioning or Guided.
C3_ModeStep ==
    /\ (Mode' = "Intro" /\ Mode # "Intro")
          => (~isTreeModeActive /\ isTreeModeActive')
    /\ (Mode' = "Transitioning" /\ Mode # "Transitioning") => Mode = "Intro"
    /\ (Mode' = "Guided" /\ Mode # "Guided")
          => Mode \in {"Transitioning", "Free"}
    /\ (Mode' = "Free" /\ Mode # "Free")
          => Mode \in {"Transitioning", "Guided"}

C3_OneDirectional == [][C3_ModeStep]_vars

\* the free camera was toggled off and Guided was entered from Free
C3_Witness ==
    /\ lastOp.op = "keydown" /\ lastOp.arg = 1 /\ lastOp.mode = "Free"
    /\ Mode = "Guided"

\* C4 (as claimed): the frame that completes the transition leaves Guided as
\* the active mode, whatever key or tap started the transition and whatever
\* input arrived during Intro or Transitioning.
C4_TransitionEndsInGuided ==
    (lastOp.op = "animate" /\ lastOp.mode = "Transitioning" /\ ~isTransitioning)
        => Mode = "Guided"

\* C5: an activation resets navigation from any prior state: after
\* toggleTreeMode has reset and run its first Intro frame the mode is Intro,
\* isTransitioning is false, SectionIndex and both progress values are 0, and
\* introAngle is the single step that frame adds to 0.
C5_ResetIsDeterministic ==
    (lastOp.op = "toggleTreeMode" /\ isTreeModeActive)
        => /\ Mode = "Intro"
           /\ ~isTransitioning
           /\ introAngle = 1
           /\ currentSectionIndex = 0
           /\ targetScrollProgress = 0
           /\ currentScrollProgress = 0

\* the experience was re-activated from Guided mode at a section above the base
C5_Witness ==
    /\ lastOp.op = "toggleTreeMode" /\ isTreeModeActive
    /\ lastOp.mode = "Guided" /\ lastOp.index > 0
    /\ currentSectionIndex = 0

\* C6: SectionIndex is an integer in [0, totalSections-1] after any sequence
\* of wheel events, touch drags, flicks and moveSection calls.
C6_SectionIndexInRange == currentSectionIndex \in 0..(TOTAL_SECTIONS - 1)

\* moveSection was asked to go far below the base from a higher section
C6_Witness ==
    /\ lastOp.op = "moveSection" /\ lastOp.arg < -TOTAL_SECTIONS
    /\ lastOp.index > 0
    /\ currentSectionIndex = 0

\* C7 (as claimed): in every reachable state
\* SectionIndex = round(targetScrollProgress * (totalSections-1)).
C7_IndexIsRoundedTarget ==
    currentSectionIndex =
        MathRound(targetScrollProgress * (TOTAL_SECTIONS - 1), Scale)

\* C8: moveSection(-1) at index 0 leaves the index at 0 and the target at 0;
\* moveSection(+1) at the last index leaves the index there and the target at 1.
C8_IdempotentAtBoundaries ==
    /\ (lastOp.op = "moveSection" /\ lastOp.arg = -1 /\ lastOp.index = 0)
          => (currentSectionIndex = 0 /\ targetScrollProgress = 0)
    /\ (lastOp.op = "moveSection" /\ lastOp.arg = 1
            /\ lastOp.index = TOTAL_SECTIONS - 1)
          => (currentSectionIndex = TOTAL_SECTIONS - 1
                /\ targetScrollProgress = Scale)

\* moveSection(+1) ran at the last section
C8_Witness ==
    /\ lastOp.op = "moveSection" /\ lastOp.arg = 1
    /\ lastOp.index = TOTAL_SECTIONS - 1
    /\ currentSectionIndex = TOTAL_SECTIONS - 1

\* C9: moveSection(d) sets SectionIndex to the old index plus d clamped to
\* [0, totalSections-1] and targetScrollProgress to exactly
\* newIndex / (totalSections-1), and changes neither currentScrollProgress
\* nor the camera pose.
C9_MoveSectionStep ==
    (lastOp'.op = "moveSection")
        => /\ currentSectionIndex' =
                  Max(0, Min(TOTAL_SECTIONS - 1,
                             currentSectionIndex + lastOp'.arg))
           /\ targetScrollProgress' * (TOTAL_SECTIONS - 1)
                  = currentSectionIndex' * Scale
           /\ currentScrollProgress' = currentScrollProgress
           /\ camPos' = camPos
           /\ camLookY' = camLookY

C9_MoveSectionEffect == [][C9_MoveSectionStep]_vars

\* moveSection moved the index in Guided mode while the camera was under way
\* and the target was not on a section
C9_Witness ==
    /\ lastOp.op = "moveSection" /\ lastOp.mode = "Guided"
    /\ lastOp.index # currentSectionIndex
    /\ currentScrollProgress > 0
    /\ currentScrollProgress # targetScrollProgress

\* the step of a Guided-mode frame
GuidedFrame == lastOp'.op = "animate" /\ lastOp'.mode = "Guided" /\ isTreeModeActive

\* C10 (as claimed): with a fixed target the distance |target - current|
\* strictly decreases in every Guided frame while it is non-zero.
C10_StrictlyCloserStep ==
    (GuidedFrame /\ targetScrollProgress # currentScrollProgress)
        => Abs(targetScrollProgress - currentScrollProgress')
             < Abs(targetScrollProgress - currentScrollProgress)

C10_StrictlyCloser == [][C10_StrictlyCloserStep]_vars

\* C10 (amended): a Guided frame adds 0.05 * (target - current), rounded to
\* the nearest representable value, to current; the distance to the target
\* never grows, it shrinks whenever that increment is more than half a unit
\* of the representation, current never crosses the target, and from
\* target 0.5, current 0 one frame gives 0.025.
C10_SmoothingStep ==
    GuidedFrame
        => LET before == targetScrollProgress - currentScrollProgress
               after == targetScrollProgress - currentScrollProgress'
               added == currentScrollProgress' - currentScrollProgress
           IN  /\ targetScrollProgress' = targetScrollProgress
               /\ Abs(100 * added - 5 * before) <= 50
               /\ Abs(after) <= Abs(before)
               /\ (Abs(5 * before) > 50 => Abs(after) < Abs(before))
               /\ before * after >= 0
               /\ (targetScrollProgress = Scale \div 2 /\ currentScrollProgress = 0
                      => currentScrollProgress' = (25 * Scale) \div 1000)

C10_Smoothing == [][C10_SmoothingStep]_vars

\* the first frame from target 0.5, current 0 has run
C10_Witness ==
    /\ lastOp.op = "animate" /\ lastOp.mode = "Guided"
    /\ frames = 1
    /\ targetScrollProgress = Scale \div 2
    /\ currentScrollProgress = (25 * Scale) \div 1000

\* the handler of the step is one of the named ones
Handled(ops) == lastOp'.op \in ops

\* C11: in Guided mode one wheel event changes targetScrollProgress by
\* exactly deltaY * 0.001 before clamping, once per event: init() registers
\* the listeners at most once, also after any number of activation toggles.
C11_WheelStep ==
    /\ listeners' <= 1
    /\ (Handled({"wheel"}) /\ isTreeModeActive /\ Mode = "Guided")
           => targetScrollProgress'
                  = Max(0, Min(Scale, targetScrollProgress + lastOp'.arg))

C11_WheelOncePerEvent == [][C11_WheelStep]_vars

\* a wheel event of 500 pixels has moved the target from 0 to 0.5 in Guided
\* mode, the listeners registered once
C11_Witness ==
    /\ lastOp.op = "wheel" /\ lastOp.arg = 500 /\ lastOp.mode = "Guided"
    /\ isTreeModeActive
    /\ listeners = 1
    /\ targetScrollProgress = Scale \div 2

\* C12: currentScrollProgress is changed only by a Guided-mode frame (and
\* zeroed by resetCameraState and startGuidedMode); in Free mode no frame
\* and no input changes it, and a Guided frame computes the camera pose from
\* the smoothed progress alone, whatever the free camera's drift was.
C12_ProgressStep ==
    /\ currentScrollProgress' # currentScrollProgress
           => \/ GuidedFrame
              \/ /\ Handled({"toggleTreeMode"}) /\ ~isTreeModeActive
                 /\ currentScrollProgress' = 0
              \/ /\ Handled({"keydown", "touchstart"}) /\ Mode = "Intro"
                 /\ currentScrollProgress' = 0
    /\ (Mode = "Free" /\ ~Handled({"toggleTreeMode"}))
           => currentScrollProgress' = currentScrollProgress
    /\ GuidedFrame
           => /\ currentScrollProgress'
                  = SmoothStep(targetScrollProgress, currentScrollProgress)
              /\ camPos' = GuidedPose(currentScrollProgress')
              /\ camLookY' = GuidedLookAtY(currentScrollProgress')

C12_ProgressOnlyByGuidedFrame == [][C12_ProgressStep]_vars

\* F has switched the free camera off again: the camera has drifted from
\* its path and the progress is still the one Guided mode had reached
C12_Witness ==
    /\ lastOp.op = "keydown" /\ lastOp.arg = 1 /\ lastOp.mode = "Free"
    /\ isTreeModeActive
    /\ Mode = "Guided"
    /\ camPos.dy # 0
    /\ currentScrollProgress > 0

\* C13: a wheel event in Free mode adds deltaY * 0.05 to the camera's
\* height and leaves targetScrollProgress, currentScrollProgress and the
\* section index unchanged.
C13_FreeWheelStep ==
    (Handled({"wheel"}) /\ isTreeModeActive /\ Mode = "Free")
        => /\ camPos' = [camPos EXCEPT !.dy = @ + (lastOp'.arg * 1000 * 5) \div 100]
           /\ targetScrollProgress' = targetScrollProgress
           /\ currentScrollProgress' = currentScrollProgress
           /\ currentSectionIndex' = currentSectionIndex

C13_FreeWheelLiftsCamera == [][C13_FreeWheelStep]_vars

\* a wheel event of 500 pixels has lifted the free camera by 25
C13_Witness ==
    /\ lastOp.op = "wheel" /\ lastOp.arg = 500 /\ lastOp.mode = "Free"
    /\ isTreeModeActive
    /\ camPos.dy = 25 * 1000

\* C14: a touch drag accumulates into targetScrollProgress as a wheel event
\* does, at 0.002 per pixel: clamped to [0,1], the section index re-derived,
\* ignored in Intro mode, and in Free mode leaving the target and the
\* section index alone.
C14_TouchDragStep ==
    (Handled({"touchmove"}) /\ isTreeModeActive)
        => IF Mode \in {"Intro", "Free"}
           THEN /\ targetScrollProgress' = targetScrollProgress
                /\ currentSectionIndex' = currentSectionIndex
           ELSE /\ targetScrollProgress'
                    = Clamp01(targetScrollProgress
                                + 2 * (touchStartY - lastOp'.arg))
                /\ currentSectionIndex'
                    = MathRound(targetScrollProgress' * (TOTAL_SECTIONS - 1),
                                Scale)

C14_TouchDragLikeWheel == [][C14_TouchDragStep]_vars

\* C15: in Intro mode wheel events, touch drags and flicks leave the target,
\* the progress, the section index and the mode unchanged; the only effect
\* an input has in Intro mode is that a key press or a tap begins the
\* transition.
C15_IntroInputStep ==
    (Handled({"wheel", "touchstart", "touchmove", "touchend", "keydown",
              "moveSection"})
       /\ isTreeModeActive /\ Mode = "Intro")
        => \/ /\ targetScrollProgress' = targetScrollProgress
              /\ currentScrollProgress' = currentScrollProgress
              /\ currentSectionIndex' = currentSectionIndex
              /\ Mode' = "Intro"
           \/ /\ Handled({"keydown", "touchstart"})
              /\ Mode' = "Transitioning"
              /\ currentSectionIndex' = currentSectionIndex

C15_IntroIgnoresInput == [][C15_IntroInputStep]_vars

\* C16: a touch that ends less than 300 ms after it began (the time since
\* the last touchStartTime is no shorter than the touch), more than 50
\* pixels from where the finger came down, snaps to a neighbouring section:
\* it leaves targetScrollProgress on the progress of the section the index
\* names, whether or not touchmove events came in between.
C16_FlickStep ==
    (Handled({"touchend"}) /\ isTreeModeActive /\ Mode # "Intro"
       /\ touch.down
       /\ now - touchStartTime < FlickMs
       /\ Abs(touch.y - lastOp'.arg) > FlickPx)
        => targetScrollProgress' * (TOTAL_SECTIONS - 1)
               = currentSectionIndex' * Scale

C16_FlickSnapsToSection == [][C16_FlickStep]_vars

\* C17: startGuidedMode called while a transition runs changes nothing, and
\* no key press or tap restarts or extends a running transition: the start
\* time, the start position, both progress values and the mode flags stay.
C17_NoOpWhileTransitioning ==
    isTransitioning => startGuidedMode(Nav, now) = Nav

C17_KeyOrTapStep ==
    (Handled({"keydown", "touchstart"}) /\ isTransitioning)
        => UNCHANGED <<transitionStartTime, transitionStartPos,
                       targetScrollProgress, currentScrollProgress,
                       isIntroMode, isTransitioning>>

C17_TransitionNotRestarted ==
    []C17_NoOpWhileTransitioning /\ [][C17_KeyOrTapStep]_vars

\* a key was pressed half way through a transition, which runs on from
\* its start time
C17_Witness ==
    /\ lastOp.op = "keydown" /\ lastOp.arg = 0
    /\ lastOp.mode = "Transitioning"
    /\ isTreeModeActive /\ isTransitioning
    /\ now - transitionStartTime = TRANSITION_DURATION_MS \div 2
    /\ startGuidedModeRestarts(Nav, now) # Nav

C19_TransitionStep ==
    /\ (Mode = "Intro" /\ Mode' = "Transitioning")
           => transitionStartTime' = now
    /\ (Mode = "Transitioning" /\ ~Handled({"toggleTreeMode"}))
           => (~isTransitioning'
                 <=> /\ Handled({"animate"}) /\ isTreeModeActive
                     /\ now - transitionStartTime >= TRANSITION_DURATION_MS)

C19_TransitionTimeBoxed == [][C19_TransitionStep]_vars

\* the frame at t0 + 2000 ms has ended the transition
C19_Witness ==
    /\ lastOp.op = "animate" /\ lastOp.mode = "Transitioning"
    /\ isTreeModeActive /\ ~isTransitioning
    /\ now - transitionStartTime = TRANSITION_DURATION_MS

\* C20: toggling the experience off halts the frame loop and gives the page
\* its scrolling back: while it is off a frame callback changes no
\* navigation or camera state and schedules no further callback, and
\* body.style.overflow is 'hidden' exactly when the experience is active.
C20_ScrollLockedIffActive == (bodyOverflow = "hidden") <=> isTreeModeActive

C20_OffStep ==
    (~isTreeModeActive /\ ~isTreeModeActive')
        => /\ pendingFrames' <= pendingFrames
           /\ Handled({"animate"})
                  => /\ Nav' = Nav
                     /\ pendingFrames' = pendingFrames - 1

C20_OffHaltsFrames == []C20_ScrollLockedIffActive /\ [][C20_OffStep]_vars

\* the callback left over from a transition has run after the experience
\* was toggled off: nothing is scheduled any more and the page scrolls
C20_Witness ==
    /\ lastOp.op = "animate"
    /\ ~isTreeModeActive
    /\ isTransitioning
    /\ pendingFrames = 0
    /\ bodyOverflow = "auto"

----------------------------------------------------------------------------
\* C21: at any time at most one animation-frame callback is pending,
\* whatever the sequence of activation toggles, toggling off and on again
\* before the pending frame has fired included.
C21_AtMostOnePendingFrame == pendingFrames <= 1

----------------------------------------------------------------------------
\* C22: pointer capture is held only while Free mode is on and the
\* experience is active; every exit path releases it, deactivating the
\* experience included.
C22_CaptureOnlyWhileFreeAndActive ==
    pointerLocked => (isFreeCameraMode /\ isTreeModeActive)

----------------------------------------------------------------------------
\* C23: invalid navigation input is clamped rather than propagated: also
\* after a wheel event whose deltaY is NaN, targetScrollProgress is a
\* number of [0,1] and the section index a number of 0..TOTAL_SECTIONS-1,
\* so that no later handler finds a non-numeric value.
C23_InvalidInputClamped ==
    /\ targetScrollProgress \in 0..Scale
    /\ currentSectionIndex \in 0..(TOTAL_SECTIONS - 1)

----------------------------------------------------------------------------
\* C24: a DOM handle missing at startup is contained: while the experience
\* is marked active the scene has been initialized and the frame loop is
\* running, and no toggle initializes the scene a second time.
C24_MissingHandleContained ==
    /\ isTreeModeActive => (isInitialized /\ pendingFrames > 0)
    /\ scene.count <= 1

----------------------------------------------------------------------------
\* C25: setDarkMode before the scene exists changes no scene state, and
\* whenever the scene exists the applied preset is Night exactly when the
\* page is in dark mode, every field of it (background, fog, ambient light,
\* directional light) from that one preset, after any interleaving of theme
\* toggles and activation toggles.
C25_LightingInSync ==
    /\ isDarkMode = bodyDarkMode
    /\ scene.count > 0
           => scene.lighting = (IF bodyDarkMode THEN NightPreset ELSE DayPreset)

C25_SetterStep ==
    (Handled({"darkMode"}) /\ scene.count = 0) => scene' = scene

C25_LightingSetterSafe == []C25_LightingInSync /\ [][C25_SetterStep]_vars

\* the theme was toggled to dark after the scene was made and the
\* experience was switched off again: the scene has the Night preset
C25_Witness ==
    /\ lastOp.op = "darkMode"
    /\ scene.count = 1
    /\ ~isTreeModeActive
    /\ bodyDarkMode
    /\ scene.lighting = NightPreset

----------------------------------------------------------------------------
----------------------------------------------------------------------------
\* C27: the font callback changes no navigation state, whenever it arrives,
\* and the labels are made at most once: however often the experience is
\* toggled, the editable meshes are the Moon alone until the font has
\* loaded, and from then on the Moon, one heading mesh per content record
\* and one detail mesh per record that has detail.
C27_Labelled(str, detail) ==
    Cardinality({k \in 1..Len(textMeshes) : textMeshes[k] = Label(str, detail)})

C27_MeshList ==
    /\ fontLoads <= 1
    /\ ~isInitialized => textMeshes = <<>>
    /\ (isInitialized /\ fontLoads = 1) => textMeshes = <<Label("Moon", FALSE)>>
    /\ (isInitialized /\ fontLoads = 0)
           => /\ textMeshes[1] = Label("Moon", FALSE)
              /\ Len(textMeshes)
                     = 1 + Len(texts)
                         + Cardinality({i \in 1..Len(texts) : texts[i].detail})
              /\ \A i \in 1..Len(texts) :
                     /\ C27_Labelled(texts[i].str, FALSE) = 1
                     /\ C27_Labelled(texts[i].str, TRUE)
                            = (IF texts[i].detail THEN 1 ELSE 0)

C27_FontStep ==
    Handled({"fontLoaded"})
        => /\ Nav' = Nav
           /\ UNCHANGED <<isTreeModeActive, isFreeCameraMode, pendingFrames,
                          frames, now>>

C27_FontLoadApart == []C27_MeshList /\ [][C27_FontStep]_vars

\* the experience was activated again after the font had loaded: eleven
\* meshes, as after the load
C27_Witness ==
    /\ lastOp.op = "toggleTreeMode"
    /\ isTreeModeActive
    /\ fontLoads = 0
    /\ Len(textMeshes) = 11
    /\ frames > 0

----------------------------------------------------------------------------
\* C28: the two-phase Guided mapping is continuous at the breakpoint: at
\* progress 0.8 the linear-phase formula and the pull-back formula both give
\* height 104, the radius is 35 and the camera looks at its own height, and
\* one thousandth further on height, radius and look-at height have moved
\* by no more than their slopes allow.
C28_LinearPhase(p) == (p * 104 * 1000) \div 800

C28_PullBackPhase(p) == 104 * 1000 + ((p - 800) * (200 - 104) * 1000) \div 200

C28_ContinuousAtBreakpoint ==
    /\ C28_LinearPhase(CanopyStart) = 104 * 1000
    /\ C28_PullBackPhase(CanopyStart) = 104 * 1000
    /\ currentScrollProgress = CanopyStart
           => /\ camPos.y = C28_LinearPhase(CanopyStart) + CameraLift * 1000
              /\ camPos.y = C28_PullBackPhase(CanopyStart) + CameraLift * 1000
              /\ camPos.r = 35 * 1000
              /\ camLookY = camPos.y
    /\ currentScrollProgress = CanopyStart + 1
           => /\ camPos.y - (104 + CameraLift) * 1000 \in 0..480
              /\ camPos.r - 35 * 1000 \in 0..400
              /\ camPos.y - camLookY \in 0..300
    /\ currentScrollProgress = CanopyStart - 1
           => /\ (104 + CameraLift) * 1000 - camPos.y \in 0..130
              /\ camPos.r = 35 * 1000
              /\ camLookY = camPos.y

\* a frame has left the camera exactly on the breakpoint
C28_Witness ==
    /\ lastOp.op = "animate"
    /\ frames > 0
    /\ currentScrollProgress = CanopyStart
    /\ camPos.y = (104 + CameraLift) * 1000
    /\ camPos.r = 35 * 1000

----------------------------------------------------------------------------
\* C29: in Guided mode height and radius are functions of
\* currentScrollProgress alone: the height rises linearly from 0 at progress
\* 0 to 104 at 0.8 and then linearly to 200 at 1 and never decreases as the
\* progress grows, the radius is 35 up to 0.8 and grows linearly to 115 at 1.
C29_Height(p) ==
    IF p <= 800 THEN (104 * 1000 * p) \div 800
    ELSE 104 * 1000 + ((200 - 104) * 1000 * (p - 800)) \div (1000 - 800)

C29_Radius(p) ==
    IF p <= 800 THEN 35 * 1000
    ELSE 35 * 1000 + ((115 - 35) * 1000 * (p - 800)) \div (1000 - 800)

C29_PoseOfProgress ==
    /\ camPos.y = C29_Height(currentScrollProgress) + CameraLift * 1000
    /\ camPos.r = C29_Radius(currentScrollProgress)

C29_MonotoneStep ==
    GuidedFrame
        => /\ currentScrollProgress' >= currentScrollProgress
                  => camPos'.y >= camPos.y /\ camPos'.r >= camPos.r
           /\ currentScrollProgress' <= currentScrollProgress
                  => camPos'.y <= camPos.y /\ camPos'.r <= camPos.r

C29_HeightAndRadius == []C29_PoseOfProgress /\ [][C29_MonotoneStep]_vars

\* a frame at the top of the path: height 200 (the camera 5 above), radius 115
C29_Witness ==
    /\ lastOp.op = "animate"
    /\ frames > 0
    /\ currentScrollProgress = Scale
    /\ camPos.y = (200 + CameraLift) * 1000
    /\ camPos.r = 115 * 1000

----------------------------------------------------------------------------
\* C30: the camera pitch stays in [-pi/2, pi/2], and a pointer move turns
\* the camera, by 0.002 rad per pixel with the pitch clamped, only while the
\* pointer is locked, Free mode is on and the experience is active;
\* otherwise it leaves yaw and pitch as they are.
C30_PitchBounded == camPitch \in -HalfPi..HalfPi

C30_MouseMoveStep ==
    Handled({"mousemove"})
        => IF pointerLocked /\ isFreeCameraMode /\ isTreeModeActive
           THEN \E move \in MouseMoves :
                   /\ move[2] = lastOp'.arg
                   /\ camYaw' = camYaw - 2 * move[1]
                   /\ camPitch' = Max(-HalfPi, Min(HalfPi, camPitch - 2 * move[2]))
           ELSE camYaw' = camYaw /\ camPitch' = camPitch

C30_MouseLookGated == []C30_PitchBounded /\ [][C30_MouseMoveStep]_vars

\* in Free mode with the pointer locked, pointer moves have turned the
\* camera and pushed the pitch against its lower bound
C30_Witness ==
    /\ lastOp.op = "mousemove"
    /\ Active("Free")
    /\ isTreeModeActive
    /\ pointerLocked
    /\ camYaw # 0
    /\ camPitch = -HalfPi

----------------------------------------------------------------------------
\* C31: in a Free-mode frame every held movement key displaces the camera
\* by exactly 0.5 along its own direction, whatever other keys are held:
\* two opposite keys cancel, and the horizontal keys leave the height alone.
C31_Held(key) == IF key \in keys THEN 500 ELSE 0

C31_FreeFrameStep ==
    (Handled({"animate"}) /\ lastOp'.mode = "Free" /\ isTreeModeActive)
        => /\ camPos'.df - camPos.df = C31_Held("w") - C31_Held("s")
           /\ camPos'.ds - camPos.ds = C31_Held("d") - C31_Held("a")
           /\ camPos'.dy - camPos.dy = C31_Held("e") - C31_Held("q")

C31_KeysMoveIndependently == [][C31_FreeFrameStep]_vars

----------------------------------------------------------------------------
\* C32: the structure of the tree does not depend on the random draws:
\* generateTree makes exactly 40 trunk segments at heights 0, 4, ..., 156,
\* a branch at exactly the segments i with i > 8 and i divisible by 3
\* (11 branches), 5 leaves for every branch, and the canopy exactly once,
\* after the last segment.
C32_Kind(kind) == SelectSeq(tree.children, LAMBDA c : c.kind = kind)

C32_BranchSegments == {i \in 0..(TrunkSegments - 1) : i > 8 /\ i % 3 = 0}

C32_TreeStructure ==
    LET segments == C32_Kind("segment")
        branches == C32_Kind("branch")
        leaves   == C32_Kind("leaf")
    IN  /\ Len(segments) = tree.i
        /\ tree.i <= 40
        /\ \A k \in 1..Len(segments) :
               segments[k].i = k - 1 /\ segments[k].y = 4000 * (k - 1)
        /\ {branches[k].i : k \in 1..Len(branches)}
               = {i \in C32_BranchSegments : i < tree.i}
        /\ Len(branches) = Cardinality({i \in C32_BranchSegments : i < tree.i})
        /\ \A k \in 1..Len(branches) :
               Cardinality({j \in 1..Len(leaves) : leaves[j].i = branches[k].i})
                   = 5
        /\ Len(leaves) = 5 * Len(branches)
        /\ tree.canopies <= 1
        /\ tree.canopies = 1 => tree.i = 40 /\ tree.canopyY = 160000
        /\ tree.at = "done"
               => /\ Len(segments) = 40
                  /\ Len(branches) = 11
                  /\ tree.canopies = 1

C32_Witness ==
    /\ tree.at = "done"
    /\ Len(C32_Kind("branch")) = 11

\* C33: the radius drawn for a canopy leaf, R * u^(1/3), lies in [0, R], it
\* is R = 45 at u = 1 and 0 at u = 0, the offset of a sample below the
\* canopy centre is 0.4 of its value on the sphere, and every canopy leaf
\* lies between 0.4 * R below and R above the canopy centre.
C33_Centre == tree.canopyY + 5000

C33_DomeSample ==
    /\ CanopySampleRadius(Scale) = 45000
    /\ CanopySampleRadius(0) = 0
    /\ \A u, v \in Uniform :
           LET sphere == CanopySphereY(u, v)
           IN  sphere < 0
                   => FlattenBottom(sphere) = MathRound(sphere * 4, 10)
    /\ mesh.kind = "canopy"
           => /\ 0 <= mesh.r /\ mesh.r <= 45000
              /\ C33_Centre - 18000 <= mesh.y
              /\ mesh.y <= C33_Centre + 45000

C33_Witness ==
    /\ mesh.kind = "canopy"
    /\ mesh.r > 40000
    /\ mesh.y < C33_Centre - 17000

----------------------------------------------------------------------------
\* C34: the Guided frame that follows the last frame of a transition finds
\* targetScrollProgress and currentScrollProgress at 0 and puts the camera
\* at (35,5,0), looking at (0,5,0).
C34_HandOverStep ==
    (GuidedFrame /\ lastOp.op = "animate" /\ lastOp.mode = "Transitioning")
        => /\ targetScrollProgress = 0
           /\ currentScrollProgress = 0
           /\ camPos' = GuidedPose(0)
           /\ camLookY' = 5000

C34_HandOverAtBase == [][C34_HandOverStep]_vars

----------------------------------------------------------------------------
\* C36: the start position a transition captures lies on the Intro orbit
\* (height 200, 160 from the trunk axis) and was set by an Intro frame,
\* whatever toggles, wheel events and key presses came before.
C36_OnIntroOrbit(p) ==
    /\ p.r = 160000 /\ p.y = 200000
    /\ p.rad >= 1 /\ p.pim = 0
    /\ p.t = 0 /\ p.df = 0 /\ p.ds = 0 /\ p.dy = 0

C36_CaptureStep ==
    (transitionStartPos' # transitionStartPos
        \/ (isIntroMode /\ ~isIntroMode')
        \/ (~isTransitioning /\ isTransitioning'))
        => /\ C36_OnIntroOrbit(transitionStartPos')
           /\ transitionStartPos' = camPos
           /\ camLookY = 140000

C36_CaptureOnIntroOrbit == [][C36_CaptureStep]_vars

\* a transition started by a key, with the free camera switched on, after
\* the experience has run for the time of a transition or longer
C36_Witness ==
    /\ isTransitioning
    /\ isFreeCameraMode
    /\ lastOp.op = "keydown"
    /\ now >= TRANSITION_DURATION_MS
    /\ transitionStartTime = now
    /\ C36_OnIntroOrbit(transitionStartPos)

\* C37: the first frame of the transition (progress 0) looks at the point
\* the last Intro frame looked at, (0,140,0).
C37_FirstTransitionFrame ==
    (Handled({"animate"}) /\ lastOp'.mode = "Transitioning" /\ isTreeModeActive
        /\ now = transitionStartTime /\ camLookY = 140000)
        => camLookY' = camLookY

C37_NoJumpLeavingIntro == [][C37_FirstTransitionFrame]_vars

----------------------------------------------------------------------------
\* C35: when the Guided camera rests at section k of 0..4 (progress k/5),
\* its height is the y position of the k-th label of the content table.
\* The height is taken to be the camera's, or the one of the point of the
\* path it was lifted from.
C35_SectionsAlignWithText ==
    \A k \in 0..4 :
        (/\ lastOp.op = "animate" /\ Mode = "Guided" /\ isTreeModeActive
         /\ targetScrollProgress = (k * 1000) \div 5
         /\ currentScrollProgress = targetScrollProgress)
            => \/ camPos.y = 1000 * texts[k + 1].y
               \/ camPos.y - 5000 = 1000 * texts[k + 1].y

----------------------------------------------------------------------------
\* C38: a mouse movement changes the position of a mesh only between a
\* mousedown that hit that mesh in edit mode and the next release of the
\* button: after a release (anywhere), or once edit mode has been left, no
\* movement moves any mesh until a new mousedown hits one.
C38_DragStep ==
    \A m \in EditMeshes :
        meshPos'[m] # meshPos[m]
            => /\ lastOp'.op = "mousemove"
               /\ isEditMode
               /\ mouseButton.down
               /\ mouseButton.hit = m

C38_DragOnlyWhileHeld == [][C38_DragStep]_vars

====
